---- MODULE Spec2Model ----
(***************************************************************************)
(* A model of the GOTURN training pipeline of pygoturn (src/src/train.py,  *)
(* src/src/model.py): the training loop train_model, the learning-rate     *)
(* scheduler exp_lr_scheduler, the batch synthesizer make_training_samples *)
(* and the parameter groups of GoNet.                                      *)
(*                                                                         *)
(* Numbers.  A learning rate or a decay factor is a rational <<n, d>> with *)
(* d > 0, multiplied exactly; image coordinates are integers.              *)
(* Tensors.  A parameter tensor is abstracted to [ver, finite]: ver counts *)
(* the optimizer updates applied to it, finite says that it holds no NaN   *)
(* or infinity.  A loss is "0" (the initial curr_loss), "finite" or        *)
(* "nonfinite".                                                            *)
(***************************************************************************)
EXTENDS Integers, Sequences, FiniteSets, TLC

\* ------------------------------------------------------------------ constants
kSaveModel == 20000
kGeneratedExamplesPerImage == 10

\* ------------------------------------------------------------------ bounds
\* Largest num_batches of the short runs.
MaxBatches == 4
\* Largest lr_decay_step of the short runs.
MaxDecayStep == 2
\* The registered datasets hold DatasetLen + 1 (alov) and DatasetLen (imagenet) samples.
DatasetLen == 1
\* Width and height of a dataset image, in pixels.
ImgSize == 8
\* Largest shift random_crop applies to a box, in pixels.
MaxShift == 1

\* ------------------------------------------------------------------ rationals
Rat(n, d) == <<n, d>>

RatMul(a, b) == <<a[1] * b[1], a[2] * b[2]>>

RatLeq(a, b) == a[1] * b[2] <= b[1] * a[2]

RECURSIVE RatPow(_, _)
RatPow(g, k) == IF k = 0 THEN <<1, 1>> ELSE RatMul(RatPow(g, k - 1), g)

\* ------------------------------------------------------------------ state
VARIABLES
    args,          \* the parsed command line (train.py 28-39, 44)
    pc,            \* the statement of train_model about to run
    batch,         \* the loop variable of "for batch in range(args.num_batches)"
    i,             \* the index of the dataset being trained on (enumerate)
    rand_idx,      \* the index drawn for the current dataset, or -1
    xy,            \* the batch x1, x2, y returned by make_training_samples
    output,        \* the model output of the forward pass
    loss,          \* the loss of the current batch
    curr_loss,     \* the statistic kept across steps
    lr,            \* the local learning rate of train_model
    optimizer,     \* the SGD optimizer: its learning rate and its parameters
    net,           \* GoNet: the parameter tensors, their gradients, requires_grad
    files,         \* the checkpoint files in args.save_directory
    pool,          \* the thread pool: tasks submitted to it
    log,           \* what was done for the current dataset, in order
    mts,           \* the frame of a running make_training_samples call
    exc            \* the exception propagating out of train_model, or "none"

vars == <<mts, exc, args, pc, batch, i, rand_idx, xy, output, loss, curr_loss, lr,
          optimizer, net, files, pool, log>>

\* ------------------------------------------------------------------ the datasets
\* train.py 52-63: datasets = [alov, imagenet]; only their lengths matter here.
datasets == <<[name |-> "alov", len |-> DatasetLen + 1],
              [name |-> "imagenet", len |-> DatasetLen]>>

\* ------------------------------------------------------------------ the network
ParamNames == {"convnet", "classifier"}

\* model.py 26-44: the convnet parameters are frozen, the classifier is fresh.
GoNetInit ==
    [param |-> [p \in ParamNames |-> [ver |-> 0, finite |-> TRUE]],
     grad |-> [p \in ParamNames |-> "none"],
     requires_grad |-> [p \in ParamNames |-> p = "classifier"],
     training |-> FALSE]

OptimizerInit_all_parameters(a) ==
    [lr |-> a.learning_rate, param_groups |-> ParamNames]

\* train.py 72-75: SGD over net.classifier.parameters() with lr = args.learning_rate.
OptimizerInit(a) ==
    [lr |-> a.learning_rate, param_groups |-> {"classifier"}]

\* No call of make_training_samples is being stepped through.
NoFrame == [pc |-> "idle"]

\* ------------------------------------------------------------------ the inputs
Gammas == {Rat(1, 10), Rat(1, 1), Rat(2, 1)}

LearningRates == {Rat(1, 1), Rat(5, 2)}

\* Short runs over every combination of the options the loop reads.  The decay
\* step is at least 1 (with 0, train.py 157 divides by zero in step 1) and the decay
\* factor may exceed 1: --gamma takes any float.
ShortArgs ==
    [num_batches : 0..MaxBatches,
     lr_decay_step : 1..MaxDecayStep,
     gamma : Gammas,
     learning_rate : LearningRates]

\* One long run with the default learning rate and decay factor (train.py 29, 31),
\* long enough to pass kSaveModel twice.
LongArgs ==
    {[num_batches |-> 2 * kSaveModel + 1,
      lr_decay_step |-> kSaveModel,
      gamma |-> Rat(1, 10),
      learning_rate |-> Rat(1, 1000000)]}

\* The state in which main calls train_model (train.py 83), for a command line of
\* the set argset.
InitWith(argset) ==
    /\ args \in argset
    /\ pc = "for_batch"
    /\ batch = 0
    /\ i = 0
    /\ rand_idx = -1
    /\ xy = <<>>
    /\ output = "none"
    /\ loss = "none"
    /\ curr_loss = "0"
    /\ lr = args.learning_rate
    /\ optimizer = OptimizerInit(args)
    /\ net = GoNetInit
    /\ files = {}
    /\ pool = [tasks |-> 0]
    /\ log = <<>>
    /\ mts = NoFrame
    /\ exc = "none"

Init == InitWith(ShortArgs \cup LongArgs)

\* The short runs alone.
InitShort == InitWith(ShortArgs)

\* Runs whose num_batches is a multiple of kSaveModel: the first and the second,
\* with the default learning rate and decay factor.
MultipleArgs ==
    {[num_batches |-> m * kSaveModel,
      lr_decay_step |-> kSaveModel,
      gamma |-> Rat(1, 10),
      learning_rate |-> Rat(1, 1000000)] : m \in {1, 2}}

\* The short runs and the runs of a multiple of kSaveModel steps.
InitMultiples == InitWith(ShortArgs \cup MultipleArgs)

\* ------------------------------------------------------------------ exp_lr_scheduler
\* train.py 87-96: lr = init_lr * gamma, written to every parameter group; the
\* caller passes its current lr as init_lr.  (The print at 90-91 changes nothing.)
exp_lr_scheduler_no_write(opt, step, init_lr, gamma) ==
    <<opt, RatMul(init_lr, gamma)>>

exp_lr_scheduler(opt, step, init_lr, gamma) ==
    LET new_lr == RatMul(init_lr, gamma)
    IN  <<[opt EXCEPT !.lr = new_lr], new_lr>>

\* ------------------------------------------------------------------ the batch, as train_model sees it
BatchOf_partial(idx, dataset) ==
    [k \in 1..kGeneratedExamplesPerImage |->
        [kind |-> IF k = 1 THEN "true" ELSE "synthetic",
         dataset |-> dataset.name,
         idx |-> idx]]

\* train.py 99-145: K + 1 slots; slot 0 is the true sample of index idx, the others
\* are synthetic samples made from the original sample of the same index.
BatchOf(idx, dataset) ==
    [k \in 1..(kGeneratedExamplesPerImage + 1) |->
        [kind |-> IF k = 1 THEN "true" ELSE "synthetic",
         dataset |-> dataset.name,
         idx |-> idx]]

\* ------------------------------------------------------------------ samples and crops
\* A box is <<x1, y1, x2, y2>> in pixels.  A crop region is a box in half pixels,
\* so that the centre of a box of odd width is a whole number.
Max(a, b) == IF a >= b THEN a ELSE b

\* dataset.get_orig_sample(idx): the unscaled image and its annotated box; the box
\* differs from one index to the next.
get_orig_sample(dataset, idx) ==
    [image |-> [src |-> dataset.name, idx |-> idx, w |-> ImgSize, h |-> ImgSize],
     bb |-> <<2, 2, 4 + idx, 4>>]

\* The square region centred on box bb whose side is twice the larger dimension
\* of bb.
CropRegion(bb) ==
    LET side == 2 * Max(bb[3] - bb[1], bb[4] - bb[2])
        cx2 == bb[1] + bb[3]
        cy2 == bb[2] + bb[4]
    IN  <<cx2 - side, cy2 - side, cx2 + side, cy2 + side>>

\* Box bb in the frame of crop region r, in half pixels.
Recenter(bb, r) ==
    <<2 * bb[1] - r[1], 2 * bb[2] - r[2], 2 * bb[3] - r[1], 2 * bb[4] - r[2]>>

\* dataset.get_sample(idx): the two crops of the real example and its box.
get_sample(dataset, idx) ==
    LET o == get_orig_sample(dataset, idx)
        r == CropRegion(o.bb)
    IN  [previmg |-> [kind |-> "true", image |-> o.image, region |-> r,
                      size |-> <<227, 227>>, tensor |-> FALSE],
         currimg |-> [kind |-> "true", image |-> o.image, region |-> r,
                      size |-> <<227, 227>>, tensor |-> FALSE],
         currbb |-> [kind |-> "true", bb |-> Recenter(o.bb, r), tensor |-> FALSE]]

\* transform = Compose([Normalize(), ToTensor()]), train.py 23: every entry of the
\* sample becomes a normalized tensor.
transform(sample) ==
    [previmg |-> [sample.previmg EXCEPT !.tensor = TRUE],
     currimg |-> [sample.currimg EXCEPT !.tensor = TRUE],
     currbb |-> [sample.currbb EXCEPT !.tensor = TRUE]]

\* The boxes random_crop can return for a sample: the annotated box shifted to the
\* right by up to MaxShift pixels, kept inside the image.
random_crop(sample) ==
    {b \in {<<sample.bb[1] + dx, sample.bb[2], sample.bb[3] + dx, sample.bb[4]>> :
                dx \in 0..MaxShift} : b[3] <= sample.image.w}

\* CropPrev: the crop of sample.image around sample.bb.
CropPrev(sample) ==
    [image |-> [kind |-> "synthetic", image |-> sample.image,
                region |-> CropRegion(sample.bb), size |-> <<>>, tensor |-> FALSE]]

\* CropCurr: the crop of sample.image around sample.prevbb, and sample.currbb in
\* the frame of that crop.
CropCurr(sample) ==
    [image |-> [kind |-> "synthetic", image |-> sample.image,
                region |-> CropRegion(sample.prevbb), size |-> <<>>, tensor |-> FALSE],
     bb |-> Recenter(sample.currbb, CropRegion(sample.prevbb))]

\* Rescale((227, 227)).
Rescale(obj) == [obj EXCEPT !.image.size = <<227, 227>>]

\* ------------------------------------------------------------------ torch
\* torch.Tensor(n, ...): n slots of uninitialised memory.
Uninit == [val |-> [kind |-> "uninit"], writes |-> 0]

NewTensor(n) == [k \in 1..n |-> Uninit]

\* t[k, ...] = v, k counted from 0.
SetSlot(t, k, v) == [t EXCEPT ![k + 1] = [val |-> v, writes |-> @.writes + 1]]

\* optimizer.zero_grad(): the gradients of the optimizer's parameters that exist
\* are zeroed.
ZeroGradOf(n, opt) ==
    [n EXCEPT !.grad = [p \in ParamNames |->
        IF p \in opt.param_groups /\ n.grad[p] # "none" THEN "zero" ELSE n.grad[p]]]

\* model(x1, x2), model.py 56-63: the output is finite when the classifier is.
ForwardOf(n, x) ==
    IF n.param["convnet"].finite /\ n.param["classifier"].finite
    THEN "finite" ELSE "nonfinite"

\* loss.backward(): a gradient for every parameter that requires one.
BackwardOf(n, l) ==
    [n EXCEPT !.grad = [p \in ParamNames |->
        IF n.requires_grad[p] THEN l ELSE n.grad[p]]]

\* optimizer.step(): SGD updates every parameter of its groups that has a gradient.
StepOf(n, opt) ==
    [n EXCEPT !.param = [p \in ParamNames |->
        IF p \in opt.param_groups /\ n.grad[p] # "none"
        THEN [ver |-> n.param[p].ver + 1,
              finite |-> n.param[p].finite /\ n.grad[p] = "finite"]
        ELSE n.param[p]]]

\* ------------------------------------------------------------------ train_model
LoopContinues_inclusive(b, n) == b <= n

\* train.py 154: range(n) yields b while b < n.
LoopContinues(b, n) == b < n

\* train.py 154-156: the loop test, then model.train().
ForBatch ==
    /\ pc = "for_batch"
    /\ IF LoopContinues(batch, args.num_batches)
       THEN /\ pc' = "lr_decay"
            /\ net' = [net EXCEPT !.training = TRUE]
       ELSE /\ pc' = "done"
            /\ net' = net
    /\ UNCHANGED <<mts, exc, args, batch, i, rand_idx, xy, output, loss, curr_loss, lr,
                   optimizer, files, pool, log>>

\* train.py 157-158, and the start of enumerate(datasets) at train.py 162.
LrDecay ==
    /\ pc = "lr_decay"
    /\ IF batch > 0 /\ batch % args.lr_decay_step = 0
       THEN LET r == exp_lr_scheduler(optimizer, batch, lr, args.gamma)
            IN  /\ optimizer' = r[1]
                /\ lr' = r[2]
       ELSE UNCHANGED <<optimizer, lr>>
    /\ pc' = "for_dataset"
    /\ i' = 0
    /\ UNCHANGED <<mts, exc, args, batch, rand_idx, xy, output, loss, curr_loss, net,
                   files, pool, log>>

\* train.py 162: the test of "for i, dataset in enumerate(datasets)"; the log of
\* the dataset before is dropped.
ForDataset ==
    /\ pc = "for_dataset"
    /\ IF i < Len(datasets)
       THEN pc' = "randint"
       ELSE pc' = "save"
    /\ log' = <<>>
    /\ UNCHANGED <<mts, exc, args, batch, i, rand_idx, xy, output, loss, curr_loss, lr,
                   optimizer, net, files, pool>>

randint_inclusive(sz) == 0..sz

\* np.random.randint(sz, size=1)[0]: an integer of [0, sz).
randint(sz) == 0..(sz - 1)

\* train.py 163-166: sz = dataset.len; rand_idx = np.random.randint(sz, size=1)[0].
RandInt ==
    /\ pc = "randint"
    /\ LET sz == datasets[i + 1].len
       IN  \E r \in randint(sz) : rand_idx' = r
    /\ pc' = "make_training_samples"
    /\ log' = Append(log, "randint")
    /\ UNCHANGED <<mts, exc, args, batch, i, xy, output, loss, curr_loss, lr, optimizer,
                   net, files, pool>>

\* train.py 169-176: the call of make_training_samples as one step of train_model;
\* the batch is made by the calling thread, the pool is not used.  The Mts actions
\* below step through the same call.
MakeSamples ==
    /\ pc = "make_training_samples"
    /\ xy' = BatchOf(rand_idx, datasets[i + 1])
    /\ pc' = "zero_grad"
    /\ log' = Append(log, "make_training_samples")
    /\ UNCHANGED <<mts, exc, args, batch, i, rand_idx, output, loss, curr_loss, lr,
                   optimizer, net, files, pool>>

\* train.py 179.
ZeroGrad ==
    /\ pc = "zero_grad"
    /\ net' = ZeroGradOf(net, optimizer)
    /\ pc' = "forward"
    /\ log' = Append(log, "zero_grad")
    /\ UNCHANGED <<mts, exc, args, batch, i, rand_idx, xy, output, loss, curr_loss, lr,
                   optimizer, files, pool>>

\* train.py 182.
Forward ==
    /\ pc = "forward"
    /\ output' = ForwardOf(net, xy)
    /\ pc' = "loss"
    /\ log' = Append(log, "forward")
    /\ UNCHANGED <<mts, exc, args, batch, i, rand_idx, xy, loss, curr_loss, lr, optimizer,
                   net, files, pool>>

\* train.py 183: a finite output can still give a loss that is not finite (a target
\* or a sum that is not); an output that is not finite never gives a finite loss.
Loss ==
    /\ pc = "loss"
    /\ \E l \in {"finite", "nonfinite"} :
          /\ output = "nonfinite" => l = "nonfinite"
          /\ loss' = l
    /\ pc' = "backward"
    /\ log' = Append(log, "loss")
    /\ UNCHANGED <<mts, exc, args, batch, i, rand_idx, xy, output, curr_loss, lr,
                   optimizer, net, files, pool>>

\* train.py 186.
Backward ==
    /\ pc = "backward"
    /\ net' = BackwardOf(net, loss)
    /\ pc' = "step"
    /\ log' = Append(log, "backward")
    /\ UNCHANGED <<mts, exc, args, batch, i, rand_idx, xy, output, loss, curr_loss, lr,
                   optimizer, files, pool>>

\* train.py 187.
OptimStep ==
    /\ pc = "step"
    /\ net' = StepOf(net, optimizer)
    /\ pc' = "statistics"
    /\ log' = Append(log, "step")
    /\ UNCHANGED <<mts, exc, args, batch, i, rand_idx, xy, output, loss, curr_loss, lr,
                   optimizer, files, pool>>

Statistics_keeps_first ==
    /\ pc = "statistics"
    /\ curr_loss' = IF i = 0 THEN loss ELSE curr_loss
    /\ i' = i + 1
    /\ rand_idx' = -1
    /\ xy' = <<>>
    /\ output' = "none"
    /\ loss' = "none"
    /\ pc' = "for_dataset"
    /\ UNCHANGED <<mts, exc, args, batch, lr, optimizer, net, files, pool, log>>

\* train.py 190-193, and the end of the loop body: the next dataset.  The locals of
\* the body are dead from here on and are cleared.
Statistics ==
    /\ pc = "statistics"
    /\ curr_loss' = loss
    /\ i' = i + 1
    /\ rand_idx' = -1
    /\ xy' = <<>>
    /\ output' = "none"
    /\ loss' = "none"
    /\ pc' = "for_dataset"
    /\ UNCHANGED <<mts, exc, args, batch, lr, optimizer, net, files, pool, log>>

\* The path of train.py 198: the step count and the loss are its tags.
CheckpointPath(b, l) == <<b, l>>

ShouldSave_at_zero(b) == b % kSaveModel = 0

ShouldSave_every_step(b) == b > 0

\* train.py 197: the steps after which a checkpoint is written.
ShouldSave(b) == b > 0 /\ b % kSaveModel = 0

\* torch.save(state, path): the file at path holds the whole state; a file that
\* was there is replaced.
torch_save(fs, state, path) ==
    {f \in fs : f.path # path}
        \cup {[path |-> path, complete |-> TRUE, state_dict |-> state]}

\* train.py 197-199, and the end of the loop body: the next step.
SaveModel ==
    /\ pc = "save"
    /\ IF ShouldSave(batch)
       THEN files' = torch_save(files, net.param, CheckpointPath(batch, curr_loss))
       ELSE files' = files
    /\ pc' = "for_batch"
    /\ batch' = batch + 1
    /\ UNCHANGED <<mts, exc, args, i, rand_idx, xy, output, loss, curr_loss, lr,
                   optimizer, net, pool, log>>

\* ------------------------------------------------------------------ make_training_samples
\* train.py 99-102: the call of train.py 169, stepped through.
MtsCall ==
    /\ pc = "make_training_samples"
    /\ mts.pc = "idle"
    /\ LET dataset == datasets[i + 1]
       IN  mts' = [pc |-> "alloc",
                   idx |-> rand_idx,
                   dataset |-> dataset,
                   orig_sample |-> get_orig_sample(dataset, rand_idx),
                   true_tensor |-> transform(get_sample(dataset, rand_idx))]
    /\ UNCHANGED <<exc, args, pc, batch, i, rand_idx, xy, output, loss, curr_loss,
                   lr, optimizer, net, files, pool, log>>

\* train.py 104-108.
MtsAlloc ==
    /\ mts.pc = "alloc"
    /\ mts' = [pc |-> "write_true",
               idx |-> mts.idx,
               dataset |-> mts.dataset,
               true_tensor |-> mts.true_tensor,
               origimg |-> mts.orig_sample.image,
               origbb |-> mts.orig_sample.bb,
               x1_batch |-> NewTensor(kGeneratedExamplesPerImage + 1),
               x2_batch |-> NewTensor(kGeneratedExamplesPerImage + 1),
               y_batch |-> NewTensor(kGeneratedExamplesPerImage + 1),
               i |-> 0,
               prevbb |-> <<>>,
               prev_img |-> "none",
               curr_obj |-> "none"]
    /\ UNCHANGED <<exc, args, pc, batch, i, rand_idx, xy, output, loss, curr_loss,
                   lr, optimizer, net, files, pool, log>>

\* train.py 111-113.
MtsWriteTrue ==
    /\ mts.pc = "write_true"
    /\ mts' = [mts EXCEPT
                 !.x1_batch = SetSlot(@, 0, mts.true_tensor.previmg),
                 !.x2_batch = SetSlot(@, 0, mts.true_tensor.currimg),
                 !.y_batch = SetSlot(@, 0, mts.true_tensor.currbb),
                 !.pc = "for"]
    /\ UNCHANGED <<exc, args, pc, batch, i, rand_idx, xy, output, loss, curr_loss,
                   lr, optimizer, net, files, pool, log>>

\* train.py 115: the test of "for i in range(kGeneratedExamplesPerImage)".
MtsFor ==
    /\ mts.pc = "for"
    /\ mts' = [mts EXCEPT !.pc = IF mts.i < kGeneratedExamplesPerImage
                                 THEN "random_crop" ELSE "return"]
    /\ UNCHANGED <<exc, args, pc, batch, i, rand_idx, xy, output, loss, curr_loss,
                   lr, optimizer, net, files, pool, log>>

\* train.py 116-121.
MtsRandomCrop ==
    /\ mts.pc = "random_crop"
    /\ \E b \in random_crop([image |-> mts.origimg, bb |-> mts.origbb]) :
          mts' = [mts EXCEPT !.prevbb = b, !.pc = "crop_prev"]
    /\ UNCHANGED <<exc, args, pc, batch, i, rand_idx, xy, output, loss, curr_loss,
                   lr, optimizer, net, files, pool, log>>

\* train.py 128: what transform_prev is applied to.
PrevCropArgs(m) == [image |-> m.origimg, bb |-> m.origbb]

\* train.py 131: what crop_curr is applied to.
CurrCropArgs(m) == [image |-> m.origimg, prevbb |-> m.prevbb, currbb |-> m.origbb]

SyntheticSlot_off_by_one(k) == k

\* train.py 141-143: the slot that synthetic example k is written to.
SyntheticSlot(k) == k + 1

\* train.py 125-128: transform_prev = Compose([CropPrev(), scale]) on the original
\* image and the original box.
MtsCropPrev ==
    /\ mts.pc = "crop_prev"
    /\ mts' = [mts EXCEPT
                 !.prev_img = Rescale(CropPrev(PrevCropArgs(mts))).image,
                 !.pc = "crop_curr"]
    /\ UNCHANGED <<exc, args, pc, batch, i, rand_idx, xy, output, loss, curr_loss,
                   lr, optimizer, net, files, pool, log>>

\* train.py 131-135: crop_curr on the original image, prevbb and the original box.
MtsCropCurr ==
    /\ mts.pc = "crop_curr"
    /\ mts' = [mts EXCEPT
                 !.curr_obj = Rescale(CropCurr(CurrCropArgs(mts))),
                 !.pc = "write"]
    /\ UNCHANGED <<exc, args, pc, batch, i, rand_idx, xy, output, loss, curr_loss,
                   lr, optimizer, net, files, pool, log>>

\* train.py 136-143, and the end of the loop body.
MtsWrite ==
    /\ mts.pc = "write"
    /\ LET sample == transform([previmg |-> mts.prev_img,
                                currimg |-> mts.curr_obj.image,
                                currbb |-> [kind |-> "synthetic",
                                            bb |-> mts.curr_obj.bb,
                                            tensor |-> FALSE]])
       IN  mts' = [mts EXCEPT
                     !.x1_batch = SetSlot(@, SyntheticSlot(mts.i), sample.previmg),
                     !.x2_batch = SetSlot(@, SyntheticSlot(mts.i), sample.currimg),
                     !.y_batch = SetSlot(@, SyntheticSlot(mts.i), sample.currbb),
                     !.i = @ + 1,
                     !.pc = "for"]
    /\ UNCHANGED <<exc, args, pc, batch, i, rand_idx, xy, output, loss, curr_loss,
                   lr, optimizer, net, files, pool, log>>

\* What train_model keeps of a slot of the returned batch.
SlotSummary(x1) ==
    IF x1.val.kind = "uninit"
    THEN [kind |-> "uninit", dataset |-> "none", idx |-> -1]
    ELSE [kind |-> x1.val.kind, dataset |-> x1.val.image.src, idx |-> x1.val.image.idx]

\* train.py 145, back in train.py 169.
MtsReturn ==
    /\ mts.pc = "return"
    /\ xy' = [k \in DOMAIN mts.x1_batch |-> SlotSummary(mts.x1_batch[k])]
    /\ mts' = NoFrame
    /\ pc' = "zero_grad"
    /\ log' = Append(log, "make_training_samples")
    /\ UNCHANGED <<exc, args, batch, i, rand_idx, output, loss, curr_loss, lr,
                   optimizer, net, files, pool>>

\* A state in which train_model calls make_training_samples: the first step, any
\* dataset, any index of it.
InitSamples ==
    /\ args \in LongArgs
    /\ pc = "make_training_samples"
    /\ batch = 0
    /\ i \in 0..(Len(datasets) - 1)
    /\ rand_idx \in 0..(datasets[i + 1].len - 1)
    /\ xy = <<>>
    /\ output = "none"
    /\ loss = "none"
    /\ curr_loss = "0"
    /\ lr = args.learning_rate
    /\ optimizer = OptimizerInit(args)
    /\ net = [GoNetInit EXCEPT !.training = TRUE]
    /\ files = {}
    /\ pool = [tasks |-> 0]
    /\ log = <<"randint">>
    /\ mts = NoFrame
    /\ exc = "none"

NextSamples ==
    \/ MtsCall
    \/ MtsAlloc
    \/ MtsWriteTrue
    \/ MtsFor
    \/ MtsRandomCrop
    \/ MtsCropPrev
    \/ MtsCropCurr
    \/ MtsWrite
    \/ MtsReturn

SpecSamples == InitSamples /\ [][NextSamples]_vars

Next ==
    \/ ForBatch
    \/ LrDecay
    \/ ForDataset
    \/ RandInt
    \/ MakeSamples
    \/ ZeroGrad
    \/ Forward
    \/ Loss
    \/ Backward
    \/ OptimStep
    \/ Statistics
    \/ SaveModel

Spec == Init /\ [][Next]_vars

\* train_model on a num_batches that is a multiple of kSaveModel, and on the
\* short runs.
SpecMultiples == InitMultiples /\ [][Next]_vars

\* train_model runs on the main thread and nothing blocks it: a statement that can
\* run does run.
FairSpec == InitShort /\ [][Next]_vars /\ WF_vars(Next)

\* ------------------------------------------------------------------ stopping a run
\* train.py 147-204 reads no stop flag and catches nothing: the one way to stop a
\* run is the interpreter's SIGINT handler, which raises KeyboardInterrupt in the
\* main thread before whichever statement is next, also inside torch.save.
KeyboardInterrupt ==
    /\ exc = "none"
    /\ pc # "done"
    /\ exc' = "KeyboardInterrupt"
    /\ UNCHANGED <<mts, args, pc, batch, i, rand_idx, xy, output, loss, curr_loss,
                   lr, optimizer, net, files, pool, log>>

\* SIGINT while torch.save (train.py 199) is writing: the file is there, the state
\* in it is not whole.
KeyboardInterruptInSave ==
    /\ exc = "none"
    /\ pc = "save"
    /\ ShouldSave(batch)
    /\ LET path == CheckpointPath(batch, curr_loss)
       IN  files' = {f \in files : f.path # path}
                       \cup {[path |-> path, complete |-> FALSE,
                              state_dict |-> net.param]}
    /\ exc' = "KeyboardInterrupt"
    /\ UNCHANGED <<mts, args, pc, batch, i, rand_idx, xy, output, loss, curr_loss,
                   lr, optimizer, net, pool, log>>

\* An exception that leaves train_model ends the run.
Running ==
    /\ exc = "none"
    /\ Next

NextSigint ==
    \/ Running
    \/ KeyboardInterrupt
    \/ KeyboardInterruptInSave

SpecSigint == Init /\ [][NextSigint]_vars

\* ================================================================== the claims
\* The statements of step `batch` that follow its learning-rate decay.
InStep ==
    pc \in {"for_dataset", "randint", "make_training_samples", "zero_grad",
            "forward", "loss", "backward", "step", "statistics", "save"}

\* init_lr * gamma^floor(b / lr_decay_step)
LrAt(b) ==
    RatMul(args.learning_rate, RatPow(args.gamma, b \div args.lr_decay_step))

\* The learning rate of every update of step b is init_lr * gamma^floor(b / lr_decay_step).
LrInForce ==
    InStep => /\ optimizer.lr = LrAt(batch)
              /\ lr = LrAt(batch)

\* The learning rate changes only in the decay of a step that is a positive
\* multiple of lr_decay_step, and there it is multiplied by gamma once.
LrChangesOnlyAtDecay ==
    optimizer.lr' # optimizer.lr =>
        /\ pc = "lr_decay"
        /\ batch > 0
        /\ batch % args.lr_decay_step = 0
        /\ optimizer.lr' = RatMul(optimizer.lr, args.gamma)

LrNonIncreasing == RatLeq(optimizer.lr', optimizer.lr)

\* A decay factor of [0, 1] and a learning rate that is not negative.
DecayingArgs ==
    /\ RatLeq(Rat(0, 1), args.gamma)
    /\ RatLeq(args.gamma, Rat(1, 1))
    /\ RatLeq(Rat(0, 1), args.learning_rate)

\* C1, as stated: at every step b the learning rate in force is
\* init_lr * gamma^floor(b / lr_decay_step), it changes only by one multiplication
\* by gamma at each positive multiple of lr_decay_step, and the sequence of learning
\* rates never increases.
C1_LrScheduleNonIncreasing ==
    /\ []LrInForce
    /\ [][LrChangesOnlyAtDecay]_vars
    /\ [][LrNonIncreasing]_vars

\* C1, amended: the same, the learning rates never increasing when gamma is in
\* [0, 1] and the initial learning rate is not negative.
C1_LrSchedule ==
    /\ []LrInForce
    /\ [][LrChangesOnlyAtDecay]_vars
    /\ [][DecayingArgs => LrNonIncreasing]_vars

\* C1: an update of the step after the second decay, run at init_lr * gamma^2.
C1_Witness ==
    /\ pc = "step"
    /\ batch = 2 * args.lr_decay_step
    /\ args.gamma = Rat(1, 10)
    /\ optimizer.lr = RatMul(RatMul(args.learning_rate, args.gamma), args.gamma)

CheckpointSteps == {f.path[1] : f \in files}

\* C2: the checkpoints written so far are those of the positive multiples of
\* kSaveModel among the finished steps, one whole file each, and no others.
C2_CheckpointCadence ==
    /\ CheckpointSteps = {k * kSaveModel : k \in 1..((batch - 1) \div kSaveModel)}
    /\ Cardinality(files) = Cardinality(CheckpointSteps)
    /\ \A f \in files : f.complete

\* C2: the run is past step kSaveModel and its one checkpoint is that step's.
C2_Witness ==
    /\ batch > kSaveModel + 1
    /\ CheckpointSteps = {kSaveModel}

\* C3: the feature extractor is as loaded: no update was applied to it, it is in
\* no parameter group of the optimizer and no gradient is computed for it; the
\* updates applied went to the classifier.
C3_ConvnetFrozen ==
    /\ net.param["convnet"] = [ver |-> 0, finite |-> TRUE]
    /\ "convnet" \notin optimizer.param_groups
    /\ net.grad["convnet"] = "none"
    /\ ~net.requires_grad["convnet"]

\* C3: three updates of the classifier have been applied.
C3_Witness ==
    /\ net.param["classifier"].ver = 3
    /\ net.param["convnet"].ver = 0
    /\ pc = "statistics"

\* C4: a step whose loss is not finite leaves the trainable parameters as they
\* were.
C4_NonFiniteLossSkipsUpdate ==
    [][(pc = "step" /\ loss = "nonfinite") => net.param' = net.param]_vars

\* The frame of make_training_samples holds its three batch tensors.
Allocated ==
    mts.pc \in {"write_true", "for", "random_crop", "crop_prev", "crop_curr",
                "write", "return"}

BatchSlots == 1..(kGeneratedExamplesPerImage + 1)

\* Slot k of the three tensors has been written once.
WrittenOnce(k) ==
    /\ mts.x1_batch[k].writes = 1
    /\ mts.x2_batch[k].writes = 1
    /\ mts.y_batch[k].writes = 1

\* C5: the batch has K + 1 slots and none is written twice; when it is returned
\* every slot has been written once, slot 0 with the real example of the index and
\* each later slot with a synthetic example made from the original sample of the
\* index; the caller receives that batch.
C5_BatchComplete ==
    /\ Allocated =>
          /\ DOMAIN mts.x1_batch = BatchSlots
          /\ DOMAIN mts.x2_batch = BatchSlots
          /\ DOMAIN mts.y_batch = BatchSlots
          /\ \A k \in BatchSlots :
                /\ mts.x1_batch[k].writes <= 1
                /\ mts.x2_batch[k].writes <= 1
                /\ mts.y_batch[k].writes <= 1
    /\ mts.pc = "return" =>
          LET true_tensor == transform(get_sample(mts.dataset, mts.idx))
              orig == get_orig_sample(mts.dataset, mts.idx)
          IN  /\ \A k \in BatchSlots : WrittenOnce(k)
              /\ mts.x1_batch[1].val = true_tensor.previmg
              /\ mts.x2_batch[1].val = true_tensor.currimg
              /\ mts.y_batch[1].val = true_tensor.currbb
              /\ \A k \in BatchSlots \ {1} :
                    /\ mts.x1_batch[k].val.kind = "synthetic"
                    /\ mts.x2_batch[k].val.kind = "synthetic"
                    /\ mts.y_batch[k].val.kind = "synthetic"
                    /\ mts.x1_batch[k].val.image = orig.image
                    /\ mts.x2_batch[k].val.image = orig.image
    /\ pc = "zero_grad" => xy = BatchOf(rand_idx, datasets[i + 1])

\* C5: a batch about to be returned, two of its synthetic examples made from
\* different boxes.
C5_Witness ==
    /\ mts.pc = "return"
    /\ mts.i = kGeneratedExamplesPerImage
    /\ mts.x2_batch[2].val.region # mts.x2_batch[3].val.region

StepLog ==
    <<"randint", "make_training_samples", "zero_grad", "forward", "loss",
      "backward", "step">>

\* How many entries of StepLog are done when pc is about to run.
LogPos ==
    [randint |-> 0, make_training_samples |-> 1, zero_grad |-> 2, forward |-> 3,
     loss |-> 4, backward |-> 5, step |-> 6, statistics |-> 7]

\* The parameter updates applied when the run is at pc in step `batch`.
UpdatesDone ==
    batch * Len(datasets)
        + (CASE pc \in {"for_batch", "lr_decay", "done"} -> 0
             [] pc = "statistics" -> i + 1
             [] pc = "save" -> Len(datasets)
             [] OTHER -> i)

\* C6: for each dataset, in list order, one index of the dataset is drawn, one
\* batch is made from it and one update is applied, as zero-gradients, forward,
\* loss, backward, optimizer step; a step applies len(datasets) updates.
C6_OneUpdatePerDataset ==
    /\ net.param["classifier"].ver = UpdatesDone
    /\ pc \in DOMAIN LogPos =>
          /\ i \in 0..(Len(datasets) - 1)
          /\ log = SubSeq(StepLog, 1, LogPos[pc])
    /\ pc \in DOMAIN LogPos \ {"randint"} =>
          rand_idx \in 0..(datasets[i + 1].len - 1)
    /\ pc \in DOMAIN LogPos \ {"randint", "make_training_samples"} =>
          \A k \in DOMAIN xy : /\ xy[k].idx = rand_idx
                               /\ xy[k].dataset = datasets[i + 1].name
    /\ pc = "save" => i = Len(datasets)

\* C6: the second step has trained on every dataset.
C6_Witness ==
    /\ pc = "save"
    /\ batch = 1
    /\ net.param["classifier"].ver = 2 * Len(datasets)

C8_SameRegionFromPerturbedBox ==
    /\ mts.pc = "write" =>
          /\ mts.prev_img.region = mts.curr_obj.image.region
          /\ mts.prev_img.region = CropRegion(mts.prevbb)
    /\ Allocated =>
          \A k \in BatchSlots \ {1} :
             mts.x1_batch[k].writes > 0 =>
                mts.x1_batch[k].val.region = mts.x2_batch[k].val.region

\* C9: a run that was stopped stopped at the start of a step, and every checkpoint
\* file it leaves is whole.
C9_StopOnlyAtStepBoundary ==
    exc # "none" =>
        /\ pc = "for_batch"
        /\ \A f \in files : f.complete

\* C10: an update works on a batch of K + 1 generated slots; the next batch is
\* generated when every earlier update is done and its batch dropped; no task is
\* ever given to the workers of the pool.
C10_NoInterleaving ==
    /\ pc \in {"zero_grad", "forward", "loss", "backward", "step"} =>
          /\ DOMAIN xy = BatchSlots
          /\ \A k \in DOMAIN xy : xy[k].kind \in {"true", "synthetic"}
          /\ mts.pc = "idle"
    /\ pc \in {"randint", "make_training_samples"} =>
          /\ xy = <<>>
          /\ net.param["classifier"].ver = batch * Len(datasets) + i
    /\ pool.tasks = 0

\* C10: the update of the second dataset of the second step is about to be applied.
C10_Witness ==
    /\ pc = "step"
    /\ i = 1
    /\ batch = 1
    /\ DOMAIN xy = BatchSlots

\* The checkpoints of a run carry step tags b with 0 < b < num_batches that are
\* multiples of kSaveModel, no two the same, and a finished run of n >= 1 steps
\* has written floor((n - 1) / kSaveModel) of them.
CheckpointCount ==
    /\ \A f \in files : /\ f.path[1] > 0
                        /\ f.path[1] < args.num_batches
                        /\ f.path[1] % kSaveModel = 0
    /\ Cardinality(CheckpointSteps) = Cardinality(files)
    /\ (pc = "done" /\ args.num_batches >= 1) =>
          Cardinality(files) = (args.num_batches - 1) \div kSaveModel

\* The last checkpoint of the run is the one of step num_batches - kSaveModel, and
\* the updates of the kSaveModel - 1 steps after it are in no checkpoint.
LastCheckpointBeforeEnd ==
    /\ \E f \in files : f.path[1] = args.num_batches - kSaveModel
    /\ \A f \in files :
          /\ f.path[1] <= args.num_batches - kSaveModel
          /\ net.param["classifier"].ver - f.state_dict["classifier"].ver
                >= (kSaveModel - 1) * Len(datasets)

DecayBeforeUpdates ==
    pc = "lr_decay" => net.param["classifier"].ver = batch * Len(datasets)

\* A parameter update is an optimizer step of the current step, at the learning
\* rate the decay of that step has set.
UpdateAfterDecay ==
    net.param' # net.param =>
        /\ pc = "step"
        /\ optimizer.lr = LrAt(batch)
        /\ optimizer' = optimizer

\* A checkpoint is written at the end of a step, after the updates for all of its
\* datasets, and holds the parameters and the two tags of that moment.
SaveAfterUpdates ==
    files' # files =>
        /\ pc = "save"
        /\ i = Len(datasets)
        /\ net.param["classifier"].ver = (batch + 1) * Len(datasets)
        /\ files' = files \cup {[path |-> <<batch, curr_loss>>,
                                 complete |-> TRUE,
                                 state_dict |-> net.param]}

\* curr_loss is set after each dataset, to the loss of that dataset, and nowhere
\* else: at the end of a step it is the loss of the last dataset.
LossOfLastDataset ==
    /\ pc = "statistics" => curr_loss' = loss
    /\ curr_loss' # curr_loss => pc = "statistics"

\* The checkpoint tagged b holds the parameters after (b + 1) * len(datasets)
\* updates.
CheckpointHoldsStep ==
    \A f \in files :
        f.state_dict["classifier"].ver = (f.path[1] + 1) * Len(datasets)

\* C12: in a step the learning-rate decay comes before every parameter update of
\* the step and the checkpoint write after the updates for all datasets; the
\* checkpoint tagged b holds the parameters after (b + 1) * len(datasets) updates
\* and is tagged with the loss of the last dataset of step b.
C12_OrderWithinStep ==
    /\ []DecayBeforeUpdates
    /\ []CheckpointHoldsStep
    /\ [][UpdateAfterDecay]_vars
    /\ [][SaveAfterUpdates]_vars
    /\ [][LossOfLastDataset]_vars

\* C12: step kSaveModel, which is also a decay step, has decayed the learning rate,
\* applied its updates and written its checkpoint.
C12_Witness ==
    /\ pc = "for_batch"
    /\ batch = kSaveModel + 1
    /\ args.lr_decay_step = kSaveModel
    /\ optimizer.lr = RatMul(args.learning_rate, args.gamma)
    /\ \E f \in files :
          /\ f.path[1] = kSaveModel
          /\ f.state_dict["classifier"].ver = (kSaveModel + 1) * Len(datasets)

====
